---- MODULE Spec2Model ----
(***************************************************************************)
(* Model of the PostScraper content script (src/src/scraper.js): the       *)
(* mutation-driven collection pipeline with its debounce timer, dedup      *)
(* index, retry timers, message handler and start/stop lifecycle.          *)
(*                                                                         *)
(* Strings the code inspects character by character (the selector) are     *)
(* sequences of one-character strings; ids are plain strings, "" standing  *)
(* for an absent attribute.  The document is the page's: what a scan finds *)
(* is an input of the scan.  Time is counted in milliseconds; a timer      *)
(* fires when its remaining delay is 0.                                    *)
(***************************************************************************)
EXTENDS Integers, Sequences, FiniteSets, TLC

\* ---------------------------------------------------------------- config
debounceDelay == 100

maxRetries == 3

retryDelay == 1000

\* ---------------------------------------------------------------- bounds
\* longest selector string a start request carries
MaxSelLen == 2

\* most nodes one mutation batch adds
MaxBatch == 1

\* most requests and mutation batches one run delivers
MaxEvents == 3

\* longest text of a Record handed to the encoder
MaxTextLen == 2

\* most links, and most images, of a Record handed to the encoder
MaxLinks == 2

\* most Records of a many-Record input of the encoder
MaxRecords == 2

\* most requests one run of sessions on a page of same-id nodes delivers
MaxCycleEvents == 4

\* most requests one run of scans of a page delivers
MaxScanEvents == 2

\* granularity of the clock while a debounce window is open
TickMs == debounceDelay \div 2

\* ---------------------------------------------------------------- the page
\* The DOM nodes the page can insert.  container: the node matches
\* containerSelector '[role="article"]'; id / dataId: its attributes ("" when
\* absent); repost: it contains '.update-components-header__image';
\* hasText: the element the text is read from has an innerText (an SVG
\* element has none); parent: 0 for a child of the observed body.
NodeAttr ==
    << [container |-> TRUE,  id |-> "a", dataId |-> "",  repost |-> FALSE, hasText |-> TRUE, parent |-> 0],
       [container |-> TRUE,  id |-> "",  dataId |-> "a", repost |-> FALSE, hasText |-> TRUE, parent |-> 0],
       [container |-> FALSE, id |-> "",  dataId |-> "",  repost |-> FALSE, hasText |-> TRUE, parent |-> 0],
       [container |-> TRUE,  id |-> "a", dataId |-> "",  repost |-> TRUE,  hasText |-> TRUE, parent |-> 3],
       [container |-> TRUE,  id |-> "b", dataId |-> "",  repost |-> FALSE, hasText |-> FALSE, parent |-> 0],
       [container |-> TRUE,  id |-> "b", dataId |-> "",  repost |-> FALSE, hasText |-> TRUE, parent |-> 0],
       [container |-> TRUE,  id |-> "",  dataId |-> "",  repost |-> FALSE, hasText |-> TRUE, parent |-> 0] >>

Nodes == DOMAIN NodeAttr

\* the nodes the feed inserts while the watcher runs; the others are on the
\* page when a scan starts
FeedNodes == 1..4

\* the nodes a page holds when a scan of the runs without the watcher starts:
\* every node that matches containerSelector, the repost among them
ScanNodes == {1, 2, 4, 5, 6, 7}

NoId == ""

Chars == {".", "a"}

Undefined == <<"undefined">>

\* ---------------------------------------------------------------- helpers
Range(s) == {s[i] : i \in DOMAIN s}

Min(a, b) == IF a < b THEN a ELSE b

RECURSIVE SortedSeq(_)
\* the nodes of S in document order (ascending index)
SortedSeq(S) ==
    IF S = {} THEN <<>>
    ELSE LET m == CHOOSE x \in S : \A y \in S : x <= y
         IN <<m>> \o SortedSeq(S \ {m})

RECURSIVE AppendNew(_, _)
\* Set.add of each element of add, in order, to the insertion-ordered set s
AppendNew(s, add) ==
    IF add = <<>> THEN s
    ELSE AppendNew(IF Head(add) \in Range(s) THEN s ELSE Append(s, Head(add)), Tail(add))

Strings(len) == UNION {[1..k -> Chars] : k \in 0..len}

\* String.prototype.indexOf('.'): index (from 0) of the first dot, -1 if none
IndexOfDot(s) ==
    IF \E i \in DOMAIN s : s[i] = "."
    THEN (CHOOSE i \in DOMAIN s : s[i] = "." /\ \A j \in 1..(i-1) : s[j] # ".") - 1
    ELSE -1

\* Element.querySelector(sel) throws a SyntaxError unless sel parses as a
\* selector: over Chars, a non-empty string that neither ends with a dot nor
\* has two dots in a row.
ValidSelector(sel) ==
    /\ Len(sel) > 0
    /\ sel[Len(sel)] # "."
    /\ \A i \in 1..(Len(sel) - 1) : ~(sel[i] = "." /\ sel[i+1] = ".")

RECURSIVE IsDescendant(_, _)
IsDescendant(m, n) ==
    LET p == NodeAttr[m].parent
    IN IF p = 0 THEN FALSE ELSE (p = n \/ IsDescendant(p, n))

\* node.querySelectorAll(containerSelector): matching descendants, document order
QuerySelectorAll(n) ==
    SortedSeq({m \in Nodes : IsDescendant(m, n) /\ NodeAttr[m].container})

\* ---------------------------------------------------------------- state
VARIABLES
    contentSelector,  \* this.config.contentSelector
    processed,        \* this.processed: nodes seen by identity
    processedIds,     \* this.processedIds: id attributes seen
    collectedData,    \* this.collectedData: the Store
    debounceTimer,    \* this.debounceTimer: 0 for null, else a timer handle
    retryCount,       \* this.retryCount
    observer,         \* this.observer: "null" or "observing"
    isActive,         \* this.isActive
    timers,           \* the page's pending setTimeout callbacks
    events,           \* requests and mutation batches delivered so far
    loadPc,           \* loadState: "pending" until the storage read settles
    lastOp,           \* history: the handler that ran last and what it did
    rejected,         \* history: nodes the dedup check rejected at least once
    accepts,          \* history: times the dedup check accepted each node
    attempts,         \* history: times extraction was attempted on each node
    derived,          \* history: Records ever appended from each node
    gapMatches,       \* history: matching nodes of all batches since the last resolution
    sinceBatch,       \* history: ms since the last batch of the open debounce window (-1: none)
    runsInGap,        \* history: handleMutations runs since the last batch
    csvData,          \* convertToCSV: its argument
    csvOut            \* convertToCSV: its return value, NotRun before the call

vars == << contentSelector, processed, processedIds, collectedData, debounceTimer,
           retryCount, observer, isActive, timers, events, loadPc, lastOp,
           rejected, accepts, attempts, derived, gapMatches, sinceBatch, runsInGap,
           csvData, csvOut >>

\* ---------------------------------------------------------------- timers
TimerIds(ts) == {t.id : t \in ts}

\* setTimeout returns a handle no pending timer uses.  Handles are opaque:
\* the debounce timers take the smallest free positive one, and the handle
\* of a retry timer, which line 211 drops, is named after its node.
NewHandle(ts) ==
    CHOOSE h \in 1..(Cardinality(ts) + 1) :
        /\ h \notin TimerIds(ts)
        /\ \A g \in 1..(h-1) : g \in TimerIds(ts)

RetryHandle(post) == 0 - post

\* clearTimeout(handle)
ClearTimeout(ts, handle) == {t \in ts : t.id # handle}

PendingDebounce(ts) == {t \in ts : t.kind = "debounce"}

PendingRetry(ts) == {t \in ts : t.kind = "retry"}

\* ---------------------------------------------------------------- processPost
\* the PostScraper object with the page's timers and the history counters
\* processPost drives
Engine ==
    [ contentSelector |-> contentSelector, processed |-> processed,
      processedIds |-> processedIds, collectedData |-> collectedData,
      retryCount |-> retryCount, timers |-> timers, debounceTimer |-> debounceTimer,
      observer |-> observer, isActive |-> isActive,
      rejected |-> rejected, accepts |-> accepts, attempts |-> attempts,
      derived |-> derived ]

\* the dedup check without the id test of line 179
ShouldProcessIdentityOnly(post, seen, seenIds) == post \notin seen

\* the dedup check without the identity test of line 176
ShouldProcessIdsOnly(post, seen, seenIds) ==
    ~(NodeAttr[post].id # NoId /\ NodeAttr[post].id \in seenIds)

\* lines 176-179: the dedup check
ShouldProcess(post, seen, seenIds) ==
    /\ post \notin seen
    /\ ~(NodeAttr[post].id # NoId /\ NodeAttr[post].id \in seenIds)

\* a repost check that never finds the marker
IsRepostNever(post) == FALSE

\* line 186: post.querySelector('.update-components-header__image')
IsRepost(post) == NodeAttr[post].repost

\* lines 223-224: querySelector rejects a malformed selector; innerText.trim()
\* fails on an element without innerText
ExtractThrows(post, sel) == ~ValidSelector(sel) \/ ~NodeAttr[post].hasText

\* lines 226-233: the Record (src is history: the node it was derived from)
ExtractPostData(post) ==
    [ id  |-> IF NodeAttr[post].id # NoId THEN NodeAttr[post].id
              ELSE IF NodeAttr[post].dataId # NoId THEN NodeAttr[post].dataId
              ELSE NoId,
      src |-> post ]

\* a catch block that schedules a retry whatever the counter holds
OnExtractErrorAlways(e, post) ==
    [e EXCEPT !.retryCount = @ + 1,
              !.timers = @ \cup {[id |-> RetryHandle(post),
                                  kind |-> "retry", remaining |-> retryDelay,
                                  batch |-> <<>>, node |-> post]}]

\* lines 204-213: the catch block
OnExtractError(e, post) ==
    IF e.retryCount < maxRetries
    THEN [e EXCEPT !.retryCount = @ + 1,
                   !.timers = @ \cup {[id |-> RetryHandle(post),
                                       kind |-> "retry", remaining |-> retryDelay,
                                       batch |-> <<>>, node |-> post]}]
    ELSE e

\* a processPost that attempts the extraction before the dedup check and
\* schedules a retry on every failure
ProcessPostRetriesForever(e, post) ==
    IF ~IsRepost(post) /\ ExtractThrows(post, e.contentSelector)
    THEN [e EXCEPT !.processed = @ \cup {post},
                   !.attempts[post] = Min(@ + 1, 2),
                   !.timers = @ \cup {[id |-> RetryHandle(post),
                                       kind |-> "retry", remaining |-> retryDelay,
                                       batch |-> <<>>, node |-> post]}]
    ELSE IF ~ShouldProcess(post, e.processed, e.processedIds)
    THEN [e EXCEPT !.rejected = @ \cup {post}]
    ELSE LET postId == NodeAttr[post].id
             m == [e EXCEPT !.processed = @ \cup {post},
                            !.processedIds = IF postId # NoId THEN @ \cup {postId} ELSE @,
                            !.accepts[post] = Min(@ + 1, 2)]
         IN IF IsRepost(post) THEN m
            ELSE [m EXCEPT !.attempts[post] = Min(@ + 1, 2),
                           !.collectedData = Append(@, ExtractPostData(post)),
                           !.derived[post] = Min(@ + 1, 2),
                           !.retryCount = 0]

\* lines 173-214
ProcessPost(e, post) ==
    IF ~ShouldProcess(post, e.processed, e.processedIds)
    THEN [e EXCEPT !.rejected = @ \cup {post}]
    ELSE LET postId == NodeAttr[post].id
             m == [e EXCEPT !.processed = @ \cup {post},
                            !.processedIds = IF postId # NoId THEN @ \cup {postId} ELSE @,
                            !.accepts[post] = Min(@ + 1, 2)]
             x == [m EXCEPT !.attempts[post] = Min(@ + 1, 2)]
         IN IF IsRepost(post) THEN m
            ELSE IF ExtractThrows(post, x.contentSelector) THEN OnExtractError(x, post)
            ELSE [x EXCEPT !.collectedData = Append(@, ExtractPostData(post)),
                           !.derived[post] = Min(@ + 1, 2),
                           !.retryCount = 0]

RECURSIVE ProcessAll(_, _)
\* posts.forEach(post => this.processPost(post))
ProcessAll(e, posts) ==
    IF posts = <<>> THEN e ELSE ProcessAll(ProcessPost(e, Head(posts)), Tail(posts))

\* a start that does not scan the page
ProcessExistingPostsSkipped(e, doc) == e

\* lines 159-167
ProcessExistingPosts(e, doc) ==
    ProcessAll(e, SortedSeq({n \in doc : NodeAttr[n].container}))

\* lines 110-117, 161-163: the nodes the scan of a start hands to processPost,
\* none when the engine is Active
Scanned(e, doc) ==
    IF e.isActive THEN <<>> ELSE SortedSeq({n \in doc : NodeAttr[n].container})

\* what document.querySelectorAll(containerSelector) can find
Containers == {n \in Nodes : NodeAttr[n].container}

\* the scans of the runs with the watcher find feed nodes only
Docs == SUBSET (Containers \cap FeedNodes)

ScanDocs == SUBSET (Containers \cap ScanNodes)

RECURSIVE MatchedPosts(_, _)
\* lines 273-291: newPosts, in insertion order
MatchedPosts(acc, added) ==
    IF added = <<>> THEN acc
    ELSE LET node == Head(added)
             own == IF NodeAttr[node].container THEN <<node>> ELSE <<>>
         IN MatchedPosts(AppendNew(AppendNew(acc, own), QuerySelectorAll(node)), Tail(added))

\* ---------------------------------------------------------------- lifecycle
\* a start without the guard of line 111
StartScraperAlways(e, doc) ==
    [ProcessExistingPosts([e EXCEPT !.isActive = TRUE], doc) EXCEPT !.observer = "observing"]

\* lines 110-133
StartScraper(e, doc) ==
    IF e.isActive THEN e
    ELSE [ProcessExistingPosts([e EXCEPT !.isActive = TRUE], doc) EXCEPT !.observer = "observing"]

\* a stop that leaves the pending debounce timer alone
StopTimersKept(ts, handle) == ts

\* lines 148-151: the pending debounce timer is cancelled
StopTimers(ts, handle) == IF handle # 0 THEN ClearTimeout(ts, handle) ELSE ts

\* a stop that also empties the Store
StopScraperClearsStore(e) ==
    IF ~e.isActive THEN e
    ELSE [e EXCEPT !.isActive = FALSE,
                   !.observer = "null",
                   !.timers = StopTimers(@, e.debounceTimer),
                   !.debounceTimer = 0,
                   !.collectedData = <<>>]

\* a stop that also forgets what was seen
StopScraperForgets(e) ==
    IF ~e.isActive THEN e
    ELSE [e EXCEPT !.isActive = FALSE,
                   !.observer = "null",
                   !.timers = StopTimers(@, e.debounceTimer),
                   !.debounceTimer = 0,
                   !.processed = {},
                   !.processedIds = {}]

\* a stop that toggles: it arms the watcher of an Idle engine
StopScraperToggles(e) ==
    IF ~e.isActive THEN [e EXCEPT !.isActive = TRUE, !.observer = "observing"]
    ELSE [e EXCEPT !.isActive = FALSE,
                   !.observer = "null",
                   !.timers = StopTimers(@, e.debounceTimer),
                   !.debounceTimer = 0]

\* lines 138-154
StopScraper(e) ==
    IF ~e.isActive THEN e
    ELSE [e EXCEPT !.isActive = FALSE,
                   !.observer = "null",
                   !.timers = StopTimers(@, e.debounceTimer),
                   !.debounceTimer = 0]

\* setTimeout(() => this.handleMutations(mutations), debounceDelay)
DebounceTimer(ts, batch) ==
    [id |-> NewHandle(ts), kind |-> "debounce", remaining |-> debounceDelay,
     batch |-> batch, node |-> 0]

\* a debounced handler that arms a timer without clearing the previous one
DebounceTimersKept(ts, handle, batch) ==
    [timers |-> ts \cup {DebounceTimer(ts, batch)}, handle |-> DebounceTimer(ts, batch).id]

\* lines 262-265: the pending timers and the kept handle after one batch
\* reached the debounced handler
DebounceTimers(ts, handle, batch) ==
    LET cleared == ClearTimeout(ts, handle)
    IN [timers |-> cleared \cup {DebounceTimer(cleared, batch)},
        handle |-> DebounceTimer(cleared, batch).id]

\* lines 261-266
DebouncedMutationHandler(e, batch) ==
    LET d == DebounceTimers(e.timers, e.debounceTimer, batch)
    IN [e EXCEPT !.timers = d.timers, !.debounceTimer = d.handle]

\* lines 389-411: the link appended to the body and removed again (lines
\* 403-405) is a child-list change of the observed body: a connected observer
\* is called back before the task ends, with a batch that holds no matching
\* node, and the debounced handler runs on it
DownloadCSV(e) ==
    IF e.observer = "observing" THEN DebouncedMutationHandler(e, <<>>) ELSE e

\* an export that reports success whatever the Store holds
DownloadDataAlways(e) == [ok |-> TRUE, e |-> e]

\* lines 305-329: ok is the value returned, TRUE when a file was produced, e
\* the object after the task.  The Records extractPostData builds never make
\* convertToCSV throw, and the page has Blob and URL.
DownloadData(e) ==
    IF Len(e.collectedData) = 0 THEN [ok |-> FALSE, e |-> e]
    ELSE [ok |-> TRUE, e |-> DownloadCSV(e)]

\* a clear that also forgets what was seen
CleanDataResetsIndex(e) ==
    [e EXCEPT !.collectedData = <<>>, !.processed = {}, !.processedIds = {}]

\* lines 417-420
CleanData(e) == [e EXCEPT !.collectedData = <<>>]

\* ---------------------------------------------------------------- export
\* A string is a sequence of characters; a fixed text without separator,
\* quote or line break (a header name, the sentinel) is written as one element.
Tab == "\t"

Quote == "\""

LF == "\n"

CR == "\r"

Null == <<"null">>

NotRun == <<"not run">>

Digit(n) == <<"0", "1", "2", "3", "4", "5", "6", "7", "8", "9">>[n + 1]

RECURSIVE StringOf(_)
\* String(n) of a count
StringOf(n) == IF n < 10 THEN <<Digit(n)>> ELSE StringOf(n \div 10) \o <<Digit(n % 10)>>

RECURSIVE Join(_, _)
\* Array.prototype.join
Join(parts, sep) ==
    IF parts = <<>> THEN <<>>
    ELSE IF Len(parts) = 1 THEN parts[1]
    ELSE parts[1] \o sep \o Join(Tail(parts), sep)

RECURSIVE DoubleQuotes(_)
\* str.replace(/"/g, '""')
DoubleQuotes(str) ==
    IF str = <<>> THEN <<>>
    ELSE (IF Head(str) = Quote THEN <<Quote, Quote>> ELSE <<Head(str)>>) \o DoubleQuotes(Tail(str))

Includes(str, c) == \E i \in DOMAIN str : str[i] = c

\* a field encoder that does not quote on line breaks
EscapeCSVNoLineBreak(value) ==
    IF value = Null THEN <<>>
    ELSE IF Includes(value, ",") \/ Includes(value, Quote)
         THEN <<Quote>> \o DoubleQuotes(value) \o <<Quote>>
         ELSE value

\* lines 337-344
EscapeCSV(value) ==
    IF value = Null THEN <<>>
    ELSE IF Includes(value, ",") \/ Includes(value, Quote)
            \/ Includes(value, LF) \/ Includes(value, CR)
         THEN <<Quote>> \o DoubleQuotes(value) \o <<Quote>>
         ELSE value

\* lines 354-363
Headers ==
    << <<"Timestamp">>, <<"Post ID">>, <<"Post Text">>, <<"Links Count">>,
       <<"Links URLs">>, <<"Images Count">>, <<"Image URLs">> >>

\* a row with the id in front of the timestamp
RowIdFirst(post) ==
    << EscapeCSV(post.id),
       EscapeCSV(post.timestamp),
       EscapeCSV(post.text),
       EscapeCSV(StringOf(Len(post.links))),
       EscapeCSV(Join(post.links, <<";", " ">>)),
       EscapeCSV(StringOf(Len(post.images))),
       EscapeCSV(Join(post.images, <<";", " ">>)) >>

\* lines 368-377: links holds the url of each link, images the src of each image
Row(post) ==
    << EscapeCSV(post.timestamp),
       EscapeCSV(post.id),
       EscapeCSV(post.text),
       EscapeCSV(StringOf(Len(post.links))),
       EscapeCSV(Join(post.links, <<";", " ">>)),
       EscapeCSV(StringOf(Len(post.images))),
       EscapeCSV(Join(post.images, <<";", " ">>)) >>

NoData == <<"No data to export">>

RECURSIVE ConvertRows(_)
\* lines 367-379
ConvertRows(data) ==
    IF data = <<>> THEN <<>>
    ELSE Join(Row(Head(data)), <<Tab>>) \o <<LF>> \o ConvertRows(Tail(data))

\* lines 351-382
ConvertToCSV(data) ==
    IF Len(data) = 0 THEN NoData
    ELSE Join(Headers, <<Tab>>) \o <<LF>> \o ConvertRows(data)

\* ---------------------------------------------------------------- messages
Response(success, message, count) ==
    [success |-> success, message |-> message, count |-> count]

\* a pre-format that accepts a dot anywhere
FormatSelectorAnyDot(s) ==
    IF IndexOfDot(s) = -1 THEN [ok |-> TRUE, sel |-> <<".">> \o s]
    ELSE [ok |-> TRUE, sel |-> s]

\* lines 69-76: the effective content selector of a start request, or a rejection
FormatSelector(s) ==
    IF IndexOfDot(s) = -1 THEN [ok |-> TRUE, sel |-> <<".">> \o s]
    ELSE IF IndexOfDot(s) = 0 THEN [ok |-> TRUE, sel |-> s]
    ELSE [ok |-> FALSE, sel |-> <<>>]

\* a rejection that keeps the selector it rejects
RejectStartSelectorKept(e, s) == [e EXCEPT !.contentSelector = s]

\* lines 73-76: the object after a start request was rejected
RejectStart(e, s) == e

StartRequest(s) == [action |-> "startScraper", selector |-> s]

\* the requests the widget and the service worker send, with selectors of at
\* most len characters
Requests(len) ==
    {StartRequest(s) : s \in Strings(len) \cup {Undefined}}
    \cup {[action |-> a, selector |-> Undefined] :
            a \in {"stopScraper", "downloadData", "getDataCount", "cleanData", "checkStatus"}}

\* lines 64-105: the object after the request, the responses sent, and
\* whether an exception left the handler
HandleMessage(e, req, doc) ==
    CASE req.action = "startScraper" ->
            IF req.selector = Undefined
            THEN \* line 69: undefined.indexOf is a TypeError
                 [e |-> e, responses |-> <<>>, escaped |-> TRUE]
            ELSE LET f == FormatSelector(req.selector)
                 IN IF ~f.ok
                    THEN [e |-> RejectStart(e, req.selector),
                          responses |-> <<Response(FALSE, "Invalid selector", -1)>>,
                          escaped |-> FALSE]
                    ELSE [e |-> StartScraper([e EXCEPT !.contentSelector = f.sel], doc),
                          responses |-> <<Response(TRUE, "Scraper started", -1)>>,
                          escaped |-> FALSE]
      [] req.action = "stopScraper" ->
            [e |-> StopScraper(e), responses |-> <<Response(TRUE, "Scraper stopped", -1)>>,
             escaped |-> FALSE]
      [] req.action = "downloadData" ->
            [e |-> DownloadData(e).e,
             responses |-> <<Response(DownloadData(e).ok, "", Len(e.collectedData))>>,
             escaped |-> FALSE]
      [] req.action = "getDataCount" ->
            [e |-> e, responses |-> <<Response(TRUE, "", Len(e.collectedData))>>,
             escaped |-> FALSE]
      [] req.action = "cleanData" ->
            [e |-> CleanData(e),
             responses |-> <<Response(TRUE, "", Len(CleanData(e).collectedData))>>,
             escaped |-> FALSE]
      [] OTHER ->
            [e |-> e, responses |-> <<Response(FALSE, "Undefined action", -1)>>,
             escaped |-> FALSE]

\* ---------------------------------------------------------------- actions
NoRequest == [action |-> "none", selector |-> Undefined]

\* the handler that ran last: the request it served, the responses it sent,
\* whether an exception left it, whether it cancelled a pending debounce
\* timer, whether it found the engine Idle; the nodes it handed to processPost
\* in its scan or, for handleMutations, its node set (posts); for
\* handleMutations the matching nodes of the batches received since the
\* previous resolution (gap); for a retry its node
Op(name) ==
    [op |-> name, req |-> NoRequest, responses |-> <<>>, escaped |-> FALSE,
     cancelled |-> FALSE, idle |-> FALSE, posts |-> <<>>, gap |-> {}, node |-> 0]

SetEngine(e) ==
    /\ contentSelector' = e.contentSelector
    /\ processed' = e.processed
    /\ processedIds' = e.processedIds
    /\ collectedData' = e.collectedData
    /\ retryCount' = e.retryCount
    /\ timers' = e.timers
    /\ debounceTimer' = e.debounceTimer
    /\ observer' = e.observer
    /\ isActive' = e.isActive
    /\ rejected' = e.rejected
    /\ accepts' = e.accepts
    /\ attempts' = e.attempts
    /\ derived' = e.derived
    /\ UNCHANGED << csvData, csvOut >>

\* the watcher history restarts whenever the engine changes state; a handler
\* that armed a debounce timer received a batch without matching nodes
SetWatchHistory(e) ==
    IF e.isActive # isActive
    THEN gapMatches' = {} /\ sinceBatch' = -1 /\ runsInGap' = 0
    ELSE IF PendingDebounce(e.timers) # PendingDebounce(timers)
    THEN sinceBatch' = 0 /\ runsInGap' = 0 /\ UNCHANGED gapMatches
    ELSE UNCHANGED << gapMatches, sinceBatch, runsInGap >>

InitEngine ==
    /\ contentSelector = <<>>
    /\ processed = {}
    /\ processedIds = {}
    /\ collectedData = <<>>
    /\ debounceTimer = 0
    /\ retryCount = 0
    /\ observer = "null"
    /\ isActive = FALSE
    /\ timers = {}
    /\ events = 0
    /\ loadPc = "pending"
    /\ lastOp = Op("init")
    /\ rejected = {}
    /\ accepts = [n \in Nodes |-> 0]
    /\ attempts = [n \in Nodes |-> 0]
    /\ derived = [n \in Nodes |-> 0]
    /\ gapMatches = {}
    /\ sinceBatch = -1
    /\ runsInGap = 0

Init ==
    /\ InitEngine
    /\ csvData = <<>>
    /\ csvOut = NotRun

\* whether the handler of req cancelled a pending debounce timer of e: the
\* timer is gone from the timers it left (line 149), or the callback of an
\* export cleared it (line 262) and armed one anew, which may equal it
Cancelled(e, req, after) ==
    \/ ~(PendingDebounce(e.timers) \subseteq after.timers)
    \/ /\ req.action = "downloadData"
       /\ Len(e.collectedData) # 0
       /\ e.observer = "observing"
       /\ \E t \in PendingDebounce(e.timers) : t.id = e.debounceTimer

\* lines 47-56: the storage read settles with the persisted flag, or fails;
\* doc is what the scan of an auto-resume finds
LoadState(result, doc) ==
    /\ loadPc = "pending"
    /\ doc = {} \/ result = "active"
    /\ loadPc' = "done"
    /\ LET e == IF result = "active" THEN StartScraper(Engine, doc) ELSE Engine
       IN SetEngine(e) /\ SetWatchHistory(e)
    /\ lastOp' = [Op("loadState") EXCEPT
                     !.posts = IF result = "active" THEN Scanned(Engine, doc) ELSE <<>>]
    /\ UNCHANGED events

\* lines 38-41: one request reaches the onMessage listener; doc is what the
\* scan of a start finds
MessageWithin(req, doc, max) ==
    /\ events < max
    /\ doc = {} \/ (req.action = "startScraper" /\ ~isActive)
    /\ events' = events + 1
    /\ LET r == HandleMessage(Engine, req, doc)
       IN /\ SetEngine(r.e)
          /\ SetWatchHistory(r.e)
          /\ lastOp' = [Op("message") EXCEPT
                           !.req = req, !.responses = r.responses, !.escaped = r.escaped,
                           !.cancelled = Cancelled(Engine, req, r.e),
                           !.idle = ~isActive,
                           !.posts = IF /\ req.action = "startScraper"
                                        /\ req.selector # Undefined
                                        /\ FormatSelector(req.selector).ok
                                     THEN Scanned(Engine, doc) ELSE <<>>]
    /\ UNCHANGED loadPc

Message(req, doc) == MessageWithin(req, doc, MaxEvents)

Batches ==
    {b \in UNION {[1..k -> FeedNodes] : k \in 0..MaxBatch} :
        \A i, j \in DOMAIN b : i # j => b[i] # b[j]}

\* lines 120-122: the page changed its child list, adding the nodes of batch,
\* and the connected observer hands the batch to the debounced handler; a
\* disconnected observer is never called
Mutation(batch) ==
    /\ events < MaxEvents
    /\ observer = "observing"
    /\ events' = events + 1
    /\ SetEngine(DebouncedMutationHandler(Engine, batch))
    /\ gapMatches' = gapMatches \cup Range(MatchedPosts(<<>>, batch))
    /\ sinceBatch' = 0
    /\ runsInGap' = 0
    /\ lastOp' = Op("debouncedMutationHandler")
    /\ UNCHANGED loadPc

\* lines 263-265, 272-299: the debounce timer expires and handleMutations runs
DebounceFire(t) ==
    /\ t \in timers /\ t.kind = "debounce" /\ t.remaining = 0
    /\ LET posts == MatchedPosts(<<>>, t.batch)
       IN /\ SetEngine(ProcessAll([Engine EXCEPT !.timers = @ \ {t}], posts))
          /\ lastOp' = [Op("handleMutations") EXCEPT !.posts = posts, !.gap = gapMatches]
    /\ gapMatches' = {}
    /\ sinceBatch' = -1
    /\ runsInGap' = Min(runsInGap + 1, 2)
    /\ UNCHANGED << events, loadPc >>

\* line 211: a retry timer expires and processPost runs again on its node
RetryFire(t) ==
    /\ t \in timers /\ t.kind = "retry" /\ t.remaining = 0
    /\ SetEngine(ProcessPost([Engine EXCEPT !.timers = @ \ {t}], t.node))
    /\ lastOp' = [Op("retry") EXCEPT !.node = t.node]
    /\ UNCHANGED << events, loadPc, gapMatches, sinceBatch, runsInGap >>

\* how far the clock moves in one step: TickMs while a debounce window is
\* open, else up to the next expiry
Step(ts) ==
    IF PendingDebounce(ts) # {} THEN TickMs
    ELSE CHOOSE d \in {t.remaining : t \in ts} : \A t \in ts : d <= t.remaining

\* time passes while timers are pending; an expired timer runs before time
\* moves on
Tick ==
    /\ timers # {}
    /\ \A t \in timers : t.remaining > 0
    /\ LET d == Step(timers)
       IN /\ timers' = {[t EXCEPT !.remaining = IF @ > d THEN @ - d ELSE 0] : t \in timers}
          /\ sinceBatch' = IF sinceBatch = -1 THEN -1 ELSE sinceBatch + d
    /\ lastOp' = Op("none")
    /\ UNCHANGED << contentSelector, processed, processedIds, collectedData, debounceTimer,
                    retryCount, observer, isActive, events, loadPc,
                    rejected, accepts, attempts, derived, gapMatches, runsInGap,
                    csvData, csvOut >>

\* the requests of the runs with the watcher and the timers: the ones that
\* change the engine, with an empty and a well-formed selector
WatchRequests ==
    {StartRequest(<<>>), StartRequest(<<"a">>),
     [action |-> "stopScraper", selector |-> Undefined],
     [action |-> "cleanData", selector |-> Undefined]}

Next ==
    \/ \E result \in {"active", "inactive", "error"}, doc \in Docs : LoadState(result, doc)
    \/ \E req \in WatchRequests, doc \in Docs : Message(req, doc)
    \/ \E batch \in Batches : Mutation(batch)
    \/ \E t \in timers : DebounceFire(t)
    \/ \E t \in timers : RetryFire(t)
    \/ Tick

Spec == Init /\ [][Next]_vars

\* the runs in which the page only exchanges messages with the widget
NextMessages ==
    \/ \E result \in {"active", "inactive", "error"}, doc \in Docs : LoadState(result, doc)
    \/ \E req \in Requests(MaxSelLen), doc \in Docs : Message(req, doc)

SpecMessages == Init /\ [][NextMessages]_vars

\* the runs in which the engine is started and stopped on pages that already
\* hold their nodes, and the retry timers run
NextScan ==
    \/ \E result \in {"active", "inactive", "error"}, doc \in ScanDocs : LoadState(result, doc)
    \/ \E req \in WatchRequests, doc \in ScanDocs : MessageWithin(req, doc, MaxScanEvents)
    \/ \E t \in timers : RetryFire(t)
    \/ Tick

SpecScan == Init /\ [][NextScan]_vars

\* the timers of the page are fired once they are due, and the clock moves
\* while timers are pending
TimersFair ==
    /\ WF_vars(Tick)
    /\ WF_vars(\E t \in timers : DebounceFire(t))
    /\ WF_vars(\E t \in timers : RetryFire(t))

\* the nodes of the runs in which due timers do fire: one with an id
\* attribute, one without
LiveNodes == {1, 2}

LiveDocs == SUBSET (Containers \cap LiveNodes)

LiveBatches == {b \in Batches : Range(b) \subseteq LiveNodes}

\* the requests that start and stop the engine
LiveRequests == {q \in WatchRequests : q.action \in {"startScraper", "stopScraper"}}

\* the runs with the watcher, on a page of two nodes, in which due timers do
\* fire
NextLive ==
    \/ \E result \in {"active", "inactive", "error"}, doc \in LiveDocs : LoadState(result, doc)
    \/ \E req \in LiveRequests, doc \in LiveDocs : Message(req, doc)
    \/ \E batch \in LiveBatches : Mutation(batch)
    \/ \E t \in timers : DebounceFire(t)
    \/ \E t \in timers : RetryFire(t)
    \/ Tick

SpecLive == Init /\ [][NextLive]_vars /\ TimersFair

\* the requests that read the Store
ReadRequests ==
    {[action |-> "downloadData", selector |-> Undefined],
     [action |-> "getDataCount", selector |-> Undefined]}

\* the runs with the watcher and the timers in which the widget also exports
\* and asks for the count
NextStore ==
    \/ \E result \in {"active", "inactive", "error"}, doc \in Docs : LoadState(result, doc)
    \/ \E req \in WatchRequests \cup ReadRequests, doc \in Docs : Message(req, doc)
    \/ \E batch \in Batches : Mutation(batch)
    \/ \E t \in timers : DebounceFire(t)
    \/ \E t \in timers : RetryFire(t)
    \/ Tick

SpecStore == Init /\ [][NextStore]_vars

\* the nodes of a page whose articles share their ids two by two
CycleNodes == {1, 4, 5, 6}

CycleDocs == SUBSET (Containers \cap CycleNodes)

\* the requests of a widget that keeps its selector
CycleRequests ==
    {StartRequest(<<"a">>),
     [action |-> "stopScraper", selector |-> Undefined],
     [action |-> "cleanData", selector |-> Undefined]}

\* the runs in which sessions follow one another on such a page: start, stop
\* and clear, and the retry timers run
NextCycle ==
    \/ \E result \in {"active", "inactive", "error"}, doc \in CycleDocs : LoadState(result, doc)
    \/ \E req \in CycleRequests, doc \in CycleDocs : MessageWithin(req, doc, MaxCycleEvents)
    \/ \E t \in timers : RetryFire(t)
    \/ Tick

SpecCycle == Init /\ [][NextCycle]_vars

\* the characters of the texts handed to the encoder
CsvChars == {Tab, ",", Quote, LF, CR, "x"}

Texts == UNION {[1..k -> CsvChars] : k \in 0..MaxTextLen}

\* link.href and img.src values
Urls == {<<"u">>, <<"u", ",", "v">>}

UrlLists == UNION {[1..k -> Urls] : k \in 0..MaxLinks}

\* a Record as extractPostData builds it (lines 226-233), the timestamp
\* written as one element
PlainRecord ==
    [timestamp |-> <<"2026-01-01T00:00:00.000Z">>, id |-> <<"a">>, text |-> <<"x">>,
     links |-> <<>>, images |-> <<>>]

\* the Records of the one-Record inputs: each field takes every value while
\* the others stay plain
CsvRecords ==
    {[PlainRecord EXCEPT !.text = t] : t \in Texts}
    \cup {[PlainRecord EXCEPT !.id = i] : i \in {Null, <<",">>, <<Quote>>}}
    \cup {[PlainRecord EXCEPT !.links = l] : l \in UrlLists}
    \cup {[PlainRecord EXCEPT !.images = l] : l \in UrlLists}

\* the Records of the many-Record inputs
FewRecords ==
    {PlainRecord,
     [PlainRecord EXCEPT !.text = <<"x", LF, "x">>],
     [PlainRecord EXCEPT !.text = <<"x", Tab, "x">>, !.id = Null, !.links = <<<<"u">>>>]}

CsvInputs ==
    {<<r>> : r \in CsvRecords} \cup UNION {[1..k -> FewRecords] : k \in 0..MaxRecords}

InitCsv ==
    /\ InitEngine
    /\ csvData \in CsvInputs
    /\ csvOut = NotRun

\* lines 316-317: the Records are handed to the encoder
Convert ==
    /\ csvOut = NotRun
    /\ csvOut' = ConvertToCSV(csvData)
    /\ UNCHANGED << contentSelector, processed, processedIds, collectedData, debounceTimer,
                    retryCount, observer, isActive, timers, events, loadPc, lastOp,
                    rejected, accepts, attempts, derived, gapMatches, sinceBatch, runsInGap,
                    csvData >>

NextCsv == Convert

SpecCsv == InitCsv /\ [][NextCsv]_vars

\* ---------------------------------------------------------------- properties
Delivered == processed \cup rejected

NodeOf(i) == collectedData[i].src

SameId(n, m) == n # m /\ NodeAttr[n].id # NoId /\ NodeAttr[n].id = NodeAttr[m].id

\* the nodes the step accepted
Accepted == {n \in Nodes : accepts'[n] # accepts[n]}

\* C1: when the debounce timer fires, the node set handed to processing is
\* the union of the matching nodes of all batches received since the previous
\* resolution.
C1_UnionOfAllBatches ==
    lastOp.op = "handleMutations" => Range(lastOp.posts) = lastOp.gap

\* C2: the Store never holds two Records with the same non-empty id.
C2_NoDuplicateIds ==
    \A i, j \in DOMAIN collectedData :
        (i # j /\ collectedData[i].id # NoId) => collectedData[i].id # collectedData[j].id

\* C3 as stated: a node that was delivered was accepted exactly once, its
\* first delivery being the accepted one.
C3_AcceptedExactlyOnce ==
    \A n \in Delivered : accepts[n] = 1

\* C3 amended: the first delivery of a node is accepted when its id attribute
\* is empty or was not seen on another node, and then every later delivery is
\* rejected: the node is accepted exactly once and yields at most one Record.
\* A node whose non-empty id attribute was seen on another node when it is
\* first delivered is rejected then and ever after.  In states: a node is
\* accepted at most once and yields at most one Record; once accepted it fails
\* the dedup check; a delivered node that was never accepted carries an id that
\* was seen; no two nodes with the same non-empty id are both accepted.  In
\* steps: a delivery is accepted only if it is the first of its node and the
\* id of the node was not seen before the step; a first delivery is accepted
\* unless the id of the node was seen before the step or the step accepted
\* another node with that id.
C3_AcceptedAtMostOnce ==
    /\ [](\A n \in Nodes :
             /\ accepts[n] <= 1
             /\ derived[n] <= 1
             /\ accepts[n] = 1 => n \in processed /\ ~ShouldProcess(n, processed, processedIds)
             /\ (n \in Delivered /\ accepts[n] = 0) =>
                    (NodeAttr[n].id # NoId /\ NodeAttr[n].id \in processedIds)
             /\ \A m \in Nodes : SameId(n, m) => ~(accepts[n] >= 1 /\ accepts[m] >= 1))
    /\ [][/\ \A n \in Accepted :
                /\ n \notin Delivered
                /\ NodeAttr[n].id # NoId => NodeAttr[n].id \notin processedIds
          /\ \A n \in Delivered' \ Delivered :
                \/ n \in Accepted
                \/ /\ NodeAttr[n].id # NoId
                   /\ \/ NodeAttr[n].id \in processedIds
                      \/ \E m \in Accepted : SameId(n, m)]_vars

\* a node was recorded, the Store was cleared, and the watcher delivered the
\* node again: it was rejected
C3_Witness ==
    /\ lastOp.op = "handleMutations"
    /\ collectedData = <<>>
    /\ \E n \in Range(lastOp.posts) : derived[n] = 1 /\ accepts[n] = 1 /\ n \in rejected

\* C4: a retry attempts the extraction of its node again, and when that
\* extraction does not throw the node's Record is appended to the Store.
C4_RetryExtractsAgain ==
    lastOp.op = "retry" =>
        /\ attempts[lastOp.node] >= 2
        /\ ~ExtractThrows(lastOp.node, contentSelector) => derived[lastOp.node] >= 1

\* C5: while the engine is stopped no debounce timer is pending and no
\* observer is connected, and neither the debounced handler nor the mutation
\* handler has run since the stop.
C5_StopCancelsTimer ==
    /\ ~isActive => (PendingDebounce(timers) = {} /\ observer = "null" /\ debounceTimer = 0)
    /\ lastOp.op \in {"handleMutations", "debouncedMutationHandler"} => isActive

\* a stop request that found a debounce timer pending and cancelled it
C5_Witness ==
    /\ lastOp.op = "message"
    /\ lastOp.req.action = "stopScraper"
    /\ lastOp.cancelled
    /\ ~isActive

\* C6: at most one debounce timer is pending; while a burst lasts the handler
\* has not run and the pending timer expires exactly debounceDelay after the
\* last batch; after it ran once nothing is pending until the next batch.
C6_OncePerQuiescentGap ==
    /\ Cardinality(PendingDebounce(timers)) <= 1
    /\ IF sinceBatch # -1
       THEN /\ runsInGap = 0
            /\ sinceBatch <= debounceDelay
            /\ \E t \in PendingDebounce(timers) :
                  t.id = debounceTimer /\ t.remaining = debounceDelay - sinceBatch
       ELSE PendingDebounce(timers) = {} /\ runsInGap <= 1

\* the handler ran once after a burst of at least two batches
C6_Witness ==
    /\ lastOp.op = "handleMutations"
    /\ runsInGap = 1
    /\ lastOp.gap # Range(lastOp.posts)

\* C7: a node with the repost marker never yields a Record and is never
\* extracted; once delivered it is rejected by the dedup check, and when it
\* was accepted its identity and its id are recorded as seen.
C7_RepostSkippedAndSeen ==
    \A n \in Nodes :
        NodeAttr[n].repost =>
            /\ derived[n] = 0
            /\ attempts[n] = 0
            /\ \A i \in DOMAIN collectedData : NodeOf(i) # n
            /\ n \in Delivered => ~ShouldProcess(n, processed, processedIds)
            /\ accepts[n] >= 1 =>
                  /\ n \in processed
                  /\ NodeAttr[n].id # NoId => NodeAttr[n].id \in processedIds

\* a repost node was accepted, skipped, delivered again and rejected
C7_Witness ==
    \E n \in Nodes :
        /\ NodeAttr[n].repost
        /\ accepts[n] = 1
        /\ n \in rejected
        /\ derived[n] = 0

\* C8: every request gets exactly one response and no exception leaves the
\* handler.
C8_ExactlyOneResponse ==
    lastOp.op = "message" => (Len(lastOp.responses) = 1 /\ ~lastOp.escaped)

\* C9: while the engine is Active the content selector is a dot followed by
\* at least one character.
C9_ActiveSelectorWellFormed ==
    isActive => (Len(contentSelector) >= 2 /\ contentSelector[1] = ".")

HasDot(s) == \E i \in DOMAIN s : s[i] = "."

StartsWithDot(s) == Len(s) >= 1 /\ s[1] = "."

\* C10: a start request with selector s makes the content selector '.' + s
\* when s has no dot, s itself when s starts with a dot, and is rejected as an
\* invalid selector when s has a dot but does not start with one.
C10_SelectorPreFormat ==
    (lastOp.op = "message" /\ lastOp.req.action = "startScraper"
                           /\ lastOp.req.selector # Undefined) =>
        LET s == lastOp.req.selector
        IN /\ ~HasDot(s) =>
                /\ contentSelector = <<".">> \o s
                /\ lastOp.responses = <<Response(TRUE, "Scraper started", -1)>>
           /\ StartsWithDot(s) =>
                /\ contentSelector = s
                /\ lastOp.responses = <<Response(TRUE, "Scraper started", -1)>>
           /\ (HasDot(s) /\ ~StartsWithDot(s)) =>
                lastOp.responses = <<Response(FALSE, "Invalid selector", -1)>>

\* a start request whose selector has its only dot at the end was rejected
C10_Witness ==
    /\ lastOp.op = "message"
    /\ lastOp.req = StartRequest(<<"a", ".">>)
    /\ lastOp.responses = <<Response(FALSE, "Invalid selector", -1)>>

\* the fields of the object with the history of processPost
engineVars == << contentSelector, processed, processedIds, collectedData, debounceTimer,
                 retryCount, observer, isActive, timers, rejected, accepts, attempts, derived >>

InvalidSelectorResponse == <<Response(FALSE, "Invalid selector", -1)>>

\* C11: a start request rejected for an invalid selector is answered with
\* success = false within the handler and changes nothing: engine state,
\* content selector, Store, dedup index, watcher and timers are unchanged and
\* no node reaches the dedup check.
C11_RejectedStartChangesNothing ==
    [][(lastOp'.op = "message" /\ lastOp'.req.action = "startScraper"
                               /\ lastOp'.req.selector # Undefined
                               /\ ~FormatSelector(lastOp'.req.selector).ok)
          => /\ lastOp'.responses = InvalidSelectorResponse
             /\ ~lastOp'.escaped
             /\ UNCHANGED engineVars]_vars

\* a start request was rejected in an Idle engine that holds a selector and
\* Records of an earlier session
C11_Witness ==
    /\ lastOp.op = "message"
    /\ lastOp.req.action = "startScraper"
    /\ lastOp.responses = InvalidSelectorResponse
    /\ ~isActive
    /\ contentSelector # <<>>
    /\ collectedData # <<>>

\* the content selectors an engine can be started with: the one it holds
\* (auto-resume) and the pre-formatted ones of the start requests
StartSelectors == {contentSelector} \cup {FormatSelector(r.selector).sel : r \in
                      {q \in WatchRequests : q.action = "startScraper"}}

\* the nodes of a scan that C12 says yield a Record: not seen by identity,
\* id attribute not seen before the scan nor on an earlier node of the scan,
\* no repost marker, extraction succeeds
Eligible(e, doc) ==
    {n \in doc :
        /\ n \notin e.processed
        /\ NodeAttr[n].id # NoId =>
              /\ NodeAttr[n].id \notin e.processedIds
              /\ \A m \in doc : m < n => NodeAttr[m].id # NodeAttr[n].id
        /\ ~NodeAttr[n].repost
        /\ ~ExtractThrows(n, e.contentSelector)}

\* C12: a start from Idle scans the nodes present and leaves the watcher
\* armed; the scan appends to the Store, in document order, exactly one Record
\* per scanned node that was not seen by identity, whose id attribute was not
\* seen, that has no repost marker and whose extraction succeeds.
C12_ScanThenArm ==
    ~isActive =>
        \A sel \in StartSelectors, doc \in ScanDocs :
            LET e == [Engine EXCEPT !.contentSelector = sel]
                r == StartScraper(e, doc)
                new == SortedSeq(Eligible(e, doc))
            IN /\ r.isActive /\ r.observer = "observing"
               /\ r.collectedData = e.collectedData \o [i \in DOMAIN new |-> ExtractPostData(new[i])]

\* a start from Idle scanned nodes 2, 4, 6 and 7 after an earlier session had
\* seen id b on node 5: node 4 passed the dedup check and was skipped as a
\* repost, node 6 was rejected for its id, and the Store gained the Records of
\* nodes 2 and 7 only
C12_Witness ==
    /\ lastOp.op = "message"
    /\ lastOp.req.action = "startScraper"
    /\ lastOp.idle
    /\ lastOp.posts = <<2, 4, 6, 7>>
    /\ isActive /\ observer = "observing"
    /\ collectedData = <<ExtractPostData(2), ExtractPostData(7)>>
    /\ accepts[4] = 1 /\ derived[4] = 0
    /\ 6 \in rejected /\ accepts[6] = 0

\* C13: an export is answered with success = (the Store is not empty) and
\* count = the number of Records in the Store, in Idle and in Active, and
\* leaves Store, dedup index and engine state unchanged, with the selector,
\* the observer, the retry counter and the retry timers; an export that
\* produced a file in an Active engine restarts the debounce window on a batch
\* without nodes, any other export leaves the debounce timer alone.
C13_DownloadFrame ==
    [][(lastOp'.op = "message" /\ lastOp'.req.action = "downloadData")
          => /\ lastOp'.responses =
                    <<Response(Len(collectedData) # 0, "", Len(collectedData))>>
             /\ ~lastOp'.escaped
             /\ UNCHANGED << contentSelector, processed, processedIds, collectedData,
                             retryCount, observer, isActive,
                             rejected, accepts, attempts, derived >>
             /\ PendingRetry(timers') = PendingRetry(timers)
             /\ IF isActive /\ Len(collectedData) # 0
                THEN \E t \in timers' :
                        /\ PendingDebounce(timers') = {t}
                        /\ t.id = debounceTimer'
                        /\ t.batch = <<>>
                        /\ t.remaining = debounceDelay
                ELSE UNCHANGED << timers, debounceTimer >>]_vars

\* an export succeeded in an Active engine that holds Records, and the
\* debounce timer it armed is pending
C13_Witness ==
    /\ lastOp.op = "message"
    /\ lastOp.req.action = "downloadData"
    /\ isActive
    /\ Len(collectedData) >= 1
    /\ lastOp.responses = <<Response(TRUE, "", Len(collectedData))>>
    /\ PendingDebounce(timers) # {}

\* C14: a clear, in Idle or Active, empties the Store and reports count 0 and
\* leaves the dedup index, the engine state, the watcher and the pending
\* timers unchanged; no step derives a Record from a node that was already
\* seen, whether or not the Store was cleared in between.
C14_ClearFrame ==
    /\ [][(lastOp'.op = "message" /\ lastOp'.req.action = "cleanData")
             => /\ collectedData' = <<>>
                /\ lastOp'.responses = <<Response(TRUE, "", 0)>>
                /\ UNCHANGED << contentSelector, processed, processedIds, debounceTimer,
                                retryCount, observer, isActive, timers,
                                rejected, accepts, attempts, derived >>]_vars
    /\ [][\A n \in processed :
             /\ derived'[n] = derived[n]
             /\ Len(SelectSeq(collectedData', LAMBDA r : r.src = n))
                    <= Len(SelectSeq(collectedData, LAMBDA r : r.src = n))]_vars

\* the Store of an Active engine was cleared while a debounce timer was
\* pending and a recorded node was in the dedup index
C14_Witness ==
    /\ lastOp.op = "message"
    /\ lastOp.req.action = "cleanData"
    /\ isActive
    /\ PendingDebounce(timers) # {}
    /\ collectedData = <<>>
    /\ \E n \in processed : derived[n] = 1

\* the nodes whose extraction threw in the step
Thrown == {n \in Nodes : attempts'[n] # attempts[n] /\ derived'[n] = derived[n]}

\* the nodes the step handed to processPost: those of its scan or of its
\* resolved batches, or the node of its retry
Processed ==
    Range(lastOp'.posts) \cup (IF lastOp'.op = "retry" THEN {lastOp'.node} ELSE {})

\* C15: when the extraction of a node of an initial scan throws, the other
\* nodes of the scan are still processed, the engine is Active with its
\* watcher armed, and the Store is what the scan would have left had the
\* failing nodes not been on the page.
C15_FailureIsolated ==
    [][(lastOp'.op \in {"message", "loadState"} /\ ~isActive /\ isActive')
          => LET e == [Engine EXCEPT !.contentSelector = contentSelector']
                 without == StartScraper(e, Processed \ Thrown)
             IN /\ observer' = "observing"
                /\ collectedData' = without.collectedData]_vars

RECURSIVE SplitFrom(_, _, _, _)
\* the pieces of str between the separators that stand outside quotes, cur
\* being the piece under way and inQuotes whether a quote is open
SplitFrom(str, sep, cur, inQuotes) ==
    IF str = <<>> THEN <<cur>>
    ELSE IF Head(str) = Quote
         THEN SplitFrom(Tail(str), sep, Append(cur, Quote), ~inQuotes)
         ELSE IF Head(str) = sep /\ ~inQuotes
              THEN <<cur>> \o SplitFrom(Tail(str), sep, <<>>, FALSE)
              ELSE SplitFrom(Tail(str), sep, Append(cur, Head(str)), inQuotes)

SplitUnquoted(str, sep) == SplitFrom(str, sep, <<>>, FALSE)

\* the lines of an encoded document: a line break inside a quoted field does
\* not end a line, and the break after the last line starts no new one
RecordLines(out) ==
    LET p == SplitUnquoted(out, LF)
    IN IF p[Len(p)] = <<>> THEN SubSeq(p, 1, Len(p) - 1) ELSE p

Quoted(v) == <<Quote>> \o DoubleQuotes(v) \o <<Quote>>

RECURSIVE UndoubleQuotes(_)
UndoubleQuotes(str) ==
    IF str = <<>> THEN <<>>
    ELSE IF Len(str) >= 2 /\ str[1] = Quote /\ str[2] = Quote
         THEN <<Quote>> \o UndoubleQuotes(SubSeq(str, 3, Len(str)))
         ELSE <<Head(str)>> \o UndoubleQuotes(Tail(str))

\* the value of an encoded field
Unquote(field) ==
    IF Len(field) >= 2 /\ field[1] = Quote /\ field[Len(field)] = Quote
    THEN UndoubleQuotes(SubSeq(field, 2, Len(field) - 1))
    ELSE field

\* the seven values of a Record in the order the spec fixes: timestamp, id,
\* text, link count, joined link URLs, media count, joined media URLs
Columns(post) ==
    << post.timestamp,
       IF post.id = Null THEN <<>> ELSE post.id,
       post.text,
       StringOf(Len(post.links)),
       Join(post.links, <<";", " ">>),
       StringOf(Len(post.images)),
       Join(post.images, <<";", " ">>) >>

\* C16: a field is wrapped in quotes, internal quotes doubled, exactly when
\* it contains the separator (tab), a quote or a line break, and every encoded
\* data row splits on unquoted tabs into exactly its seven fields.
C16_QuotedExactlyWhenSpecial ==
    (csvOut # NotRun /\ csvData # <<>>) =>
        \A i \in DOMAIN csvData :
            LET fields == SplitUnquoted(RecordLines(csvOut)[i + 1], Tab)
                cols == Columns(csvData[i])
            IN /\ Len(fields) = 7
               /\ \A k \in 1..7 :
                     fields[k] = IF Includes(cols[k], Tab) \/ Includes(cols[k], Quote)
                                        \/ Includes(cols[k], LF) \/ Includes(cols[k], CR)
                                 THEN Quoted(cols[k]) ELSE cols[k]

\* C17: for Records the output is the header line followed by one data line
\* per Record, in Store order (a line break inside a quoted field ends no
\* line); for no Record it is the sentinel string, without a header.
C17_HeaderAndOneLinePerRecord ==
    csvOut # NotRun =>
        IF csvData = <<>>
        THEN csvOut = NoData /\ \A k \in DOMAIN Headers : ~Includes(csvOut, Headers[k][1])
        ELSE LET ls == RecordLines(csvOut)
             IN /\ Len(ls) = 1 + Len(csvData)
                /\ ls[1] = Join(Headers, <<Tab>>)
                /\ \A i \in DOMAIN csvData : ls[i + 1] = Join(Row(csvData[i]), <<Tab>>)

\* two Records were encoded, one with a line break in its text
C17_Witness ==
    /\ csvOut # NotRun
    /\ Len(csvData) = 2
    /\ \E i \in DOMAIN csvData : Includes(csvData[i].text, LF)

\* the values the header names announce, by name
ColumnOf(post, name) ==
    CASE name = <<"Timestamp">> -> post.timestamp
      [] name = <<"Post ID">> -> IF post.id = Null THEN <<>> ELSE post.id
      [] name = <<"Post Text">> -> post.text
      [] name = <<"Links Count">> -> StringOf(Len(post.links))
      [] name = <<"Links URLs">> -> Join(post.links, <<";", " ">>)
      [] name = <<"Images Count">> -> StringOf(Len(post.images))
      [] name = <<"Image URLs">> -> Join(post.images, <<";", " ">>)

\* C18: every data row is the tab-join of seven encoded fields whose values
\* are, in this order, timestamp, id, text, link count, joined link URLs,
\* media count, joined media URLs, which is the order of the header's names;
\* the two counts are the numbers of entries joined in the fields after them.
C18_FixedColumnOrder ==
    (csvOut # NotRun /\ csvData # <<>>) =>
        \A i \in DOMAIN csvData :
            LET post == csvData[i]
                row == Row(post)
            IN /\ RecordLines(csvOut)[i + 1] = Join(row, <<Tab>>)
               /\ Len(row) = 7 /\ Len(Headers) = 7
               /\ \A k \in 1..7 :
                     /\ Unquote(row[k]) = Columns(post)[k]
                     /\ Columns(post)[k] = ColumnOf(post, Headers[k])
               /\ Unquote(row[4]) = StringOf(Len(post.links))
               /\ Unquote(row[6]) = StringOf(Len(post.images))

\* a Record with two links, one of them with a comma, was encoded
C18_Witness ==
    /\ csvOut # NotRun
    /\ \E i \in DOMAIN csvData :
          /\ Len(csvData[i].links) = 2
          /\ \E j \in 1..2 : Includes(csvData[i].links[j], ",")

\* C19: a stop request that finds the engine Idle changes nothing (engine
\* state, watcher, timers, Store, dedup index), and stopping twice leaves the
\* object a single stop leaves.
C19_StopIdempotent ==
    /\ [][(lastOp'.op = "message" /\ lastOp'.req.action = "stopScraper" /\ ~isActive)
             => /\ UNCHANGED engineVars
                /\ lastOp'.responses = <<Response(TRUE, "Scraper stopped", -1)>>]_vars
    /\ [](StopScraper(StopScraper(Engine)) = StopScraper(Engine))

\* a stop request found the engine Idle with Records in the Store
C19_Witness ==
    /\ lastOp.op = "message"
    /\ lastOp.req.action = "stopScraper"
    /\ lastOp.idle
    /\ ~isActive
    /\ processed # {}
    /\ collectedData # <<>>

\* the retries the step scheduled
Scheduled == {t \in timers' : t.kind = "retry" /\ t.remaining = retryDelay /\ t.node \in Thrown}

\* C20: the retry counter is one counter for all nodes and stays within
\* 0..maxRetries; it goes down only in a step with a successful extraction;
\* in a step without one, the failing nodes get retries only while the
\* counter is below maxRetries, each retry counting one, so that after
\* maxRetries failures a further failing node gets none.
C20_SharedRetryBudget ==
    /\ [](retryCount \in 0..maxRetries)
    /\ [][/\ retryCount' < retryCount => derived' # derived
          /\ Cardinality(Scheduled) <= Cardinality(Thrown)
          /\ derived' = derived =>
                /\ Cardinality(Scheduled) = Min(Cardinality(Thrown), maxRetries - retryCount)
                /\ retryCount' = retryCount + Cardinality(Scheduled)]_vars

\* four nodes failed in a row: three retries are pending, the counter is at
\* maxRetries and the fourth node got no retry
C20_Witness ==
    /\ retryCount = maxRetries
    /\ Cardinality({n \in Nodes : attempts[n] = 1 /\ derived[n] = 0}) = maxRetries + 1
    /\ Cardinality(PendingRetry(timers)) = maxRetries
    /\ collectedData = <<>>

\* C21: once a node with a non-empty id attribute was accepted, every other
\* node with the same id attribute is rejected by the dedup check although it
\* was not seen by identity; the set of seen ids never loses an id, whether
\* the engine is stopped, started again or the Store is cleared.
C21_SameIdRejected ==
    /\ [](\A n, m \in Nodes :
             (SameId(n, m) /\ accepts[n] >= 1) =>
                 /\ NodeAttr[n].id \in processedIds
                 /\ accepts[m] = 0
                 /\ m \notin processed
                 /\ ~ShouldProcess(m, processed, processedIds)
                 /\ m \in Delivered => m \in rejected)
    /\ [][processedIds \subseteq processedIds']_vars

\* a node was recorded, the Store was cleared, the engine was stopped, and
\* the scan of the next start rejected another node with the same id
C21_Witness ==
    /\ lastOp.op = "message"
    /\ lastOp.req.action = "startScraper"
    /\ lastOp.idle
    /\ collectedData = <<>>
    /\ \E n, m \in Nodes :
          /\ SameId(n, m)
          /\ derived[n] = 1
          /\ m \in rejected
          /\ m \notin processed

IsPrefix(a, b) == Len(a) <= Len(b) /\ SubSeq(b, 1, Len(a)) = a

\* C22: every step other than a clear (start with its scan, stop, watcher
\* resolution, retry timer expiry, export, count query, auto-resume) leaves
\* the Records of the Store unchanged and in their order as a prefix of the new
\* Store.
C22_AppendOnly ==
    [][(lastOp'.op = "message" /\ lastOp'.req.action = "cleanData")
          \/ IsPrefix(collectedData, collectedData')]_vars

\* a watcher resolution appended the Record of one of its nodes to a Store
\* that held a Record
C22_Witness ==
    /\ lastOp.op = "handleMutations"
    /\ Len(collectedData) >= 2
    /\ NodeOf(Len(collectedData)) \in Range(lastOp.posts)
    /\ NodeOf(1) \notin Range(lastOp.posts)

\* C23: a step that finds the engine Idle and leaves it Idle (a request, the
\* settling of the storage read, the expiry of a retry timer scheduled while
\* Active, the passage of time) appends no Record: the Store is unchanged or
\* cleared.
C23_IdleStoreNeverGrows ==
    [][(~isActive /\ ~isActive')
          => (collectedData' = collectedData \/ collectedData' = <<>>)]_vars

\* a retry timer scheduled while the engine was Active expired after the stop
C23_Witness ==
    /\ lastOp.op = "retry"
    /\ ~isActive
    /\ lastOp.node \in processed
    /\ attempts[lastOp.node] = 1
    /\ derived[lastOp.node] = 0

\* C24: when a stop request was handled while the storage read of loadState
\* was pending and the read settles next, the engine is Idle with no watcher
\* armed after loadState completed.
C24_StopNotUndone ==
    [][(lastOp.op = "message" /\ lastOp.req.action = "stopScraper"
            /\ loadPc = "pending" /\ loadPc' = "done")
          => (~isActive' /\ observer' = "null")]_vars

\* C25: after every handler the observer is connected exactly when the
\* engine is Active, and a start request that finds the engine Active, whatever
\* the page holds, scans nothing and arms nothing: it leaves the object as it
\* was but for the content selector, so that an observer is only ever created
\* while none exists.
C25_OneWatcherIffActive ==
    /\ (observer = "observing") <=> isActive
    /\ observer \in {"null", "observing"}
    /\ isActive =>
          \A req \in {q \in WatchRequests : q.action = "startScraper"}, doc \in Docs :
              /\ HandleMessage(Engine, req, doc).e =
                     [Engine EXCEPT !.contentSelector = FormatSelector(req.selector).sel]
              /\ StartScraper(Engine, doc) = Engine

\* a start request found the engine Active with nodes seen and its observer
\* connected
C25_Witness ==
    /\ lastOp.op = "message"
    /\ lastOp.req.action = "startScraper"
    /\ ~lastOp.idle
    /\ isActive
    /\ observer = "observing"
    /\ processed # {}

\* C26: when due timers are fired, every run, of which the requests and the
\* mutation batches are finitely many, reaches a point from which no debounce
\* timer and no retry timer is pending any more, even when every extraction
\* throws.
C26_TimersDieOut ==
    <>[](timers = {})

\* the retry of a node whose extraction threw has fired, no timer is pending
\* and no request or batch can arrive any more
C26_Witness ==
    /\ lastOp.op = "retry"
    /\ timers = {}
    /\ events = MaxEvents
    /\ collectedData = <<>>
    /\ \E n \in Nodes : attempts[n] >= 1

====
